---- MODULE Spec2Model ----
(***************************************************************************)
(* A model of md_jinja/render_md.py: fragment inclusion, variable-usage    *)
(* scanning, variable loading and the run() batch driver.                  *)
(*                                                                         *)
(* Python strings are sequences of one-character strings, so the two       *)
(* regular expressions, os.path.dirname, os.path.join and str.endswith are *)
(* computed character by character.                                        *)
(***************************************************************************)
EXTENDS Integers, Sequences, FiniteSets, TLC

VARIABLES
    fs,                 \* the file system
    template_dirs,      \* run's arguments
    variable_dirs,
    pc,                 \* where run, process_directory and render_template are
    error,              \* the exception that left run
    variables,          \* the namespace load_variables returned
    data_opened,        \* the data files load_variables has opened
    td,                 \* run: index of the template directory in turn
    input_dir,          \* process_directory: its argument
    walk,               \* process_directory: what os.walk has still to yield
    root,               \* process_directory: the directory in turn
    files,              \* process_directory: the names of root still to handle
    output_path,
    made,               \* the directories os.makedirs created
    written,            \* the output files, by path
    started,            \* the template paths render_template was called with
    template_path,      \* render_template: its argument
    template_content,
    stack,              \* the activations of include_external_files
    opened,             \* the open() calls of replace_with_file_content in this render
    returned,           \* the activations of include_external_files that returned in this render
    unreadable,         \* the path whose open() raised FileNotFoundError
    template_vars,
    undefined_vars,
    printed,            \* the lines printed
    rendered            \* what render_template returned

(***************************************************************************)
(* Strings                                                                 *)
(***************************************************************************)

\* [a-zA-Z0-9_] of the pattern of find_template_variables
WordChars ==
    {"a","b","c","d","e","f","g","h","i","j","k","l","m","n","o","p","q","r","s","t","u","v","w","x","y","z",
     "A","B","C","D","E","F","G","H","I","J","K","L","M","N","O","P","Q","R","S","T","U","V","W","X","Y","Z",
     "0","1","2","3","4","5","6","7","8","9","_"}

\* s[i:] of Python, with 1-based i
From(s, i) == SubSeq(s, i, Len(s))

\* s.startswith(p, i-1): p occurs in s at position i
StartsAt(s, p, i) ==
    /\ i >= 1
    /\ i + Len(p) - 1 <= Len(s)
    /\ \A k \in 1..Len(p) : s[i + k - 1] = p[k]

\* str.endswith
EndsWith(s, p) == Len(p) <= Len(s) /\ StartsAt(s, p, Len(s) - Len(p) + 1)

\* the first position at or after i whose character is not in cs (Len(s)+1: none)
SkipChars(s, i, cs) ==
    CHOOSE j \in i..(Len(s) + 1) :
        /\ \A k \in i..(j - 1) : s[k] \in cs
        /\ (j = Len(s) + 1 \/ s[j] \notin cs)

\* s.find(p, i-1): the first position at or after i where p occurs (0: none)
Find(s, p, i) ==
    IF \E j \in i..Len(s) : StartsAt(s, p, j)
    THEN CHOOSE j \in i..Len(s) :
            StartsAt(s, p, j) /\ \A k \in i..(j - 1) : ~StartsAt(s, p, k)
    ELSE 0

\* s.rfind(c): the last position of character c (0: none)
RFind(s, c) ==
    IF \E j \in 1..Len(s) : s[j] = c
    THEN CHOOSE j \in 1..Len(s) : s[j] = c /\ \A k \in (j + 1)..Len(s) : s[k] # c
    ELSE 0

RECURSIVE Concat(_)
\* "".join(ss)
Concat(ss) == IF ss = <<>> THEN <<>> ELSE Head(ss) \o Concat(Tail(ss))

RECURSIVE JoinWith(_, _)
\* sep.join(ss)
JoinWith(ss, sep) ==
    IF ss = <<>> THEN <<>>
    ELSE IF Len(ss) = 1 THEN ss[1]
    ELSE ss[1] \o sep \o JoinWith(Tail(ss), sep)

(***************************************************************************)
(* The two patterns                                                        *)
(***************************************************************************)

NoMatch == [found |-> FALSE]

\* re.match of \{\{ *([a-zA-Z0-9_]+) *\}\} at position i: the three character
\* classes are disjoint, so the greedy scan never backtracks
VarMatchAt(s, i) ==
    IF ~StartsAt(s, <<"{", "{">>, i) THEN NoMatch
    ELSE LET p == SkipChars(s, i + 2, {" "})
             q == SkipChars(s, p, WordChars)
             r == SkipChars(s, q, {" "})
         IN IF q > p /\ StartsAt(s, <<"}", "}">>, r)
            THEN [found |-> TRUE, start |-> i, group |-> SubSeq(s, p, q - 1), end |-> r + 2]
            ELSE NoMatch

\* the pattern with a brace too few on each side: \{\{ *(.*?) *\}\}
IncludeMatchAt_two_braces(s, i) ==
    IF ~StartsAt(s, <<"{", "{">>, i) THEN NoMatch
    ELSE LET p == SkipChars(s, i + 2, {" "})
             j == Find(s, <<"}", "}">>, p)
         IN IF j = 0 \/ \E k \in p..(j - 1) : s[k] = "\n"
            THEN NoMatch
            ELSE LET t == CHOOSE u \in p..j :
                              /\ \A k \in u..(j - 1) : s[k] = " "
                              /\ (u = p \/ s[u - 1] # " ")
                 IN [found |-> TRUE, start |-> i, group |-> SubSeq(s, p, t - 1), end |-> j + 2]

\* re.match of \{\{\{ *(.*?) *\}\}\} at position i: the leading blanks are
\* taken greedily, the lazy group stops at the blanks before the first }}}
\* and '.' does not match a newline
IncludeMatchAt(s, i) ==
    IF ~StartsAt(s, <<"{", "{", "{">>, i) THEN NoMatch
    ELSE LET p == SkipChars(s, i + 3, {" "})
             j == Find(s, <<"}", "}", "}">>, p)
         IN IF j = 0 \/ \E k \in p..(j - 1) : s[k] = "\n"
            THEN NoMatch
            ELSE LET t == CHOOSE u \in p..j :
                              /\ \A k \in u..(j - 1) : s[k] = " "
                              /\ (u = p \/ s[u - 1] # " ")
                 IN [found |-> TRUE, start |-> i, group |-> SubSeq(s, p, t - 1), end |-> j + 3]

\* a search that finds the first match of the text only, as re.sub with count=1
IncludeSearch_once(s, i) ==
    IF i = 1 /\ \E j \in i..Len(s) : IncludeMatchAt(s, j).found
    THEN IncludeMatchAt(s, CHOOSE j \in i..Len(s) :
            IncludeMatchAt(s, j).found /\ \A k \in i..(j - 1) : ~IncludeMatchAt(s, k).found)
    ELSE NoMatch

\* re.search from position i: the leftmost match, as re.sub finds the next one
IncludeSearch(s, i) ==
    IF \E j \in i..Len(s) : IncludeMatchAt(s, j).found
    THEN IncludeMatchAt(s, CHOOSE j \in i..Len(s) :
            IncludeMatchAt(s, j).found /\ \A k \in i..(j - 1) : ~IncludeMatchAt(s, k).found)
    ELSE NoMatch

VarSearch(s, i) ==
    IF \E j \in i..Len(s) : VarMatchAt(s, j).found
    THEN VarMatchAt(s, CHOOSE j \in i..Len(s) :
            VarMatchAt(s, j).found /\ \A k \in i..(j - 1) : ~VarMatchAt(s, k).found)
    ELSE NoMatch

RECURSIVE FindAllVars(_, _)
\* re.findall: the groups of the successive non-overlapping matches from i on
FindAllVars(s, i) ==
    LET m == VarSearch(s, i)
    IN IF m.found THEN <<m.group>> \o FindAllVars(s, m.end) ELSE <<>>

\* render_md.py line 8
find_template_variables(text) ==
    LET all == FindAllVars(text, 1)
    IN {all[k] : k \in 1..Len(all)}

(***************************************************************************)
(* os.path                                                                 *)
(***************************************************************************)

\* posixpath.dirname
dirname(p) ==
    LET i == RFind(p, "/")
        head == SubSeq(p, 1, i)
        n == SkipChars(head, 1, {"/"})       \* Len(head)+1 iff head is all slashes
        RECURSIVE RStrip(_)
        RStrip(h) == IF h # <<>> /\ h[Len(h)] = "/" THEN RStrip(SubSeq(h, 1, Len(h) - 1)) ELSE h
    IN IF head # <<>> /\ n <= Len(head) THEN RStrip(head) ELSE head

\* posixpath.join of two parts
join(a, b) ==
    IF StartsAt(b, <<"/">>, 1) THEN b
    ELSE IF a = <<>> \/ a[Len(a)] = "/" THEN a \o b
    ELSE a \o <<"/">> \o b

RECURSIVE Split(_, _)
\* p.split(c)
Split(p, c) ==
    LET i == Find(p, <<c>>, 1)
    IN IF i = 0 THEN <<p>> ELSE <<SubSeq(p, 1, i - 1)>> \o Split(From(p, i + 1), c)

(***************************************************************************)
(* The file system the program reads                                       *)
(***************************************************************************)

\* A path of the file system is the sequence of its components; the process
\* runs with the root directory as its working directory, so a relative
\* path string names the same file as the absolute one.  No path of the
\* model holds a ".." component or a symbolic link to a directory.
Normalize(p) ==
    SelectSeq(Split(p, "/"), LAMBDA c : c # <<>> /\ c # <<".">>)

IsPrefix(k, l) == Len(k) <= Len(l) /\ SubSeq(l, 1, Len(k)) = k

\* open(p, 'r') on file system f: the content, or the OSError raised.  A
\* dangling symbolic link is listed by its directory and cannot be opened.
Open(f, p) ==
    LET k == Normalize(p)
    IN IF p = <<>> THEN [ok |-> FALSE, error |-> "FileNotFoundError"]
       ELSE IF k \in DOMAIN f
       THEN CASE f[k].kind = "file" ->
                    IF p[Len(p)] = "/"
                    THEN [ok |-> FALSE, error |-> "NotADirectoryError"]
                    ELSE [ok |-> TRUE, content |-> f[k].content]
              [] f[k].kind = "dir" -> [ok |-> FALSE, error |-> "IsADirectoryError"]
              [] OTHER -> [ok |-> FALSE, error |-> "FileNotFoundError"]
       ELSE IF \E n \in 0..(Len(k) - 1) :
                  SubSeq(k, 1, n) \in DOMAIN f /\ f[SubSeq(k, 1, n)].kind # "dir"
       THEN [ok |-> FALSE, error |-> "NotADirectoryError"]
       ELSE [ok |-> FALSE, error |-> "FileNotFoundError"]

\* os.path.isdir
isdir(f, p) ==
    /\ p # <<>>
    /\ Normalize(p) \in DOMAIN f
    /\ f[Normalize(p)].kind = "dir"

\* the names os.walk finds in directory p: its sub-directories and the rest
ListDirs(f, p) ==
    {k[Len(k)] : k \in {l \in DOMAIN f :
        Len(l) = Len(Normalize(p)) + 1 /\ IsPrefix(Normalize(p), l) /\ f[l].kind = "dir"}}

ListFiles(f, p) ==
    {k[Len(k)] : k \in {l \in DOMAIN f :
        Len(l) = Len(Normalize(p)) + 1 /\ IsPrefix(Normalize(p), l) /\ f[l].kind # "dir"}}

\* every order in which a set can be enumerated
Orders(S) ==
    {o \in [1..Cardinality(S) -> S] : \A x \in S : \E n \in 1..Cardinality(S) : o[n] = x}

(***************************************************************************)
(* yaml.safe_load and dict.update                                          *)
(***************************************************************************)

\* One line "key: value" of a block mapping.
YamlLine(l) ==
    LET i == Find(l, <<":", " ">>, 1)
    IN IF /\ i > 1
          /\ \A n \in 1..(i - 1) : l[n] \in WordChars
          /\ i + 2 <= Len(l)
          /\ \A n \in (i + 2)..Len(l) : l[n] \in WordChars
       THEN [ok |-> TRUE, key |-> SubSeq(l, 1, i - 1), value |-> From(l, i + 2)]
       ELSE [ok |-> FALSE]

\* a merge that keeps the value a key already has
update_keeps_first(a, b) ==
    [k \in DOMAIN a \cup DOMAIN b |-> IF k \in DOMAIN a THEN a[k] ELSE b[k]]

\* dict.update: every key of b overwrites a's
update(a, b) ==
    [k \in DOMAIN a \cup DOMAIN b |-> IF k \in DOMAIN b THEN b[k] ELSE a[k]]

EmptyDict == [k \in {} |-> <<>>]

RECURSIVE YamlLines(_, _)
YamlLines(ls, doc) ==
    IF ls = <<>> THEN [kind |-> "mapping", doc |-> doc]
    ELSE LET e == YamlLine(Head(ls))
         IN IF e.ok
            THEN YamlLines(Tail(ls), update(doc, [k \in {e.key} |-> e.value]))
            ELSE [kind |-> "error"]

\* yaml.safe_load of a flat block mapping of plain scalars: an empty document
\* loads as None, anything that is no such mapping is reported as an error
safe_load(text) ==
    LET ls == SelectSeq(Split(text, "\n"), LAMBDA l : l # <<>>)
    IN IF ls = <<>> THEN [kind |-> "none"] ELSE YamlLines(ls, EmptyDict)

(***************************************************************************)
(* os.walk                                                                 *)
(***************************************************************************)

RECURSIVE WalkOrders(_, _)
RECURSIVE SubWalks(_, _, _)
\* Every sequence of (root, files) os.walk(top) can yield, top-down: the
\* order of the names inside a directory is the file system's
WalkOrders(f, top) ==
    IF ~isdir(f, top) THEN {<<>>}
    ELSE {<<[root |-> top, files |-> fo]>> \o rest :
            fo \in Orders(ListFiles(f, top)),
            rest \in UNION {SubWalks(f, top, ds) : ds \in Orders(ListDirs(f, top))}}

SubWalks(f, top, ds) ==
    IF Len(ds) = 0 THEN {<<>>}
    ELSE {a \o b : a \in WalkOrders(f, join(top, ds[1])),
                   b \in SubWalks(f, top, [n \in 1..(Len(ds) - 1) |-> ds[n + 1]])}

\* os.path.relpath(path, start) for a path that os.walk(start) yields
relpath(path, start) ==
    LET r == Normalize(path)
        b == Normalize(start)
    IN IF r = b THEN <<".">> ELSE JoinWith(SubSeq(r, Len(b) + 1, Len(r)), <<"/">>)

(***************************************************************************)
(* jinja2                                                                  *)
(***************************************************************************)

RECURSIVE Render(_, _, _)
\* Template(text).render(variables) on the simple-substitution form: every
\* {{ name }} becomes the value of name, or nothing when name is undefined
Render(text, vars, i) ==
    LET m == VarSearch(text, i)
    IN IF m.found
       THEN SubSeq(text, i, m.start - 1)
            \o (IF m.group \in DOMAIN vars THEN vars[m.group] ELSE <<>>)
            \o Render(text, vars, m.end)
       ELSE From(text, i)

(***************************************************************************)
(* Names and texts of the checked file systems                             *)
(***************************************************************************)

MD == <<".", "m", "d">>
YAML == <<".", "y", "a", "m", "l">>
YML == <<".", "y", "m", "l">>

Abs(name) == <<"/">> \o name
Sub(dir, name) == dir \o <<"/">> \o name

t_md == <<"t">> \o MD
f_md == <<"f">> \o MD
g_md == <<"g">> \o MD
z_md == <<"z">> \o MD
s_yaml == <<"s">> \o YAML
n_txt == <<"n", ".", "t", "x", "t">>
p_yaml == <<"p">> \o YAML
q_yml == <<"q">> \o YML
r_yaml == <<"r">> \o YAML

\* {{{ ref }}} and {{ name }}
Inc(ref) == <<"{", "{", "{", " ">> \o ref \o <<" ", "}", "}", "}">>
Var(name) == <<"{", "{", " ">> \o name \o <<" ", "}", "}">>

OutputDir == Abs(<<"o">>)

\* /a/t.md
RootTexts ==
    { <<"T">> \o Var(<<"k">>) \o <<" ">> \o Var(<<"u">>),
      Inc(Sub(<<"b">>, f_md)),
      Inc(Abs(Sub(Sub(<<"a">>, <<"b">>), g_md))) \o <<"{", "{", "k", "}", "}">>,
      Inc(Sub(<<"b">>, g_md)) \o <<" ">> \o Sub(<<"b">>, f_md) \o <<" ", "}", "}", "}">>,
      <<"{", "{", "{">> \o Sub(<<"b">>, f_md) \o <<"}", "}", "}", "x">> \o Inc(Sub(<<"b">>, g_md)),
      Inc(Sub(<<"b">>, z_md)),
      <<"x">> \o Inc(<<"b">>),
      <<"{", "{", "{", "\n", "}", "}", "}">> \o Var(<<"j">>) }

\* /a/b/f.md
FragmentTexts ==
    { <<"F">> \o Var(<<"j">>),
      Inc(g_md) \o Var(<<"u">>),
      Inc(f_md),
      <<"f">> \o Inc(z_md) }

\* /a/b/g.md
LeafTexts ==
    { <<"G">>,
      Var(<<"w">>),
      <<"{", "{", "{">>,
      Inc(f_md) }

Dir == [kind |-> "dir"]
File(text) == [kind |-> "file", content |-> text]
Dangling == [kind |-> "dangling"]
Absent == [kind |-> "absent"]

Key(a) == <<a>>
Key2(a, b) == <<a, b>>
Key3(a, b, c) == <<a, b, c>>

\* The directory tree; entries maps the paths of the files to their entries
Tree(entries) ==
    LET dirs == {<<>>, Key(<<"a">>), Key2(<<"a">>, <<"b">>), Key(<<"c">>),
                 Key(<<"v">>), Key(<<"w">>)}
    IN [k \in dirs \cup DOMAIN entries |-> IF k \in dirs THEN Dir ELSE entries[k]]

k1 == <<"k", ":", " ", "1">>
k2 == <<"k", ":", " ", "2">>
k3 == <<"k", ":", " ", "3">>
j1 == <<"j", ":", " ", "1">>
j3 == <<"j", ":", " ", "3">>

\* the files that are the same in every checked file system
Fixed ==
    [k \in {Key2(<<"c">>, s_yaml), Key2(<<"c">>, n_txt), Key2(<<"a">>, n_txt)} |->
        IF k = Key2(<<"c">>, s_yaml) THEN File(<<"k", ":", " ">> \o Var(<<"k">>))
        ELSE File(<<"n">>)]

Templates(t, f, g) ==
    [k \in {Key2(<<"a">>, t_md), Key3(<<"a">>, <<"b">>, f_md), Key3(<<"a">>, <<"b">>, g_md)} |->
        IF k = Key2(<<"a">>, t_md) THEN t
        ELSE IF k = Key3(<<"a">>, <<"b">>, f_md) THEN f ELSE g]

Data(p, q, r) ==
    [k \in {Key2(<<"v">>, p_yaml), Key2(<<"v">>, q_yml), Key2(<<"w">>, r_yaml)} |->
        IF k = Key2(<<"v">>, p_yaml) THEN File(p)
        ELSE IF k = Key2(<<"v">>, q_yml) THEN File(q) ELSE File(r)]

\* a function without the keys whose entry is "absent"
Present(m) == [k \in {l \in DOMAIN m : m[l].kind # "absent"} |-> m[k]]

\* File systems that differ in the templates and fragments
TemplateSystems ==
    {Tree(update(update(Fixed, Data(k1, k2, j3)), Present(Templates(File(t), File(f), g)))) :
        t \in RootTexts, f \in FragmentTexts,
        g \in {File(x) : x \in LeafTexts} \cup {Dangling, Absent}}

\* File systems that differ in the data files
DataSystems ==
    {Tree(update(update(Fixed, Data(p, q, r)),
                 Templates(File(<<"T">> \o Var(<<"k">>) \o <<" ">> \o Var(<<"u">>)),
                           File(Inc(g_md) \o Var(<<"u">>)),
                           File(Var(<<"w">>))))) :
        p \in {k1, k1 \o <<"\n">> \o j1},
        q \in {k2, <<"k", " ", "2">>, <<>>},
        r \in {k3, j3}}

dA == Abs(<<"a">>)
dC == Abs(<<"c">>)
dV == Abs(<<"v">>)
dW == Abs(<<"w">>)

(***************************************************************************)
(* The program                                                             *)
(***************************************************************************)

\* the interpreter's limit on nested activations of include_external_files
MaxDepth == 4

vars == <<fs, template_dirs, variable_dirs, pc, error, variables, data_opened, td,
          input_dir, walk, root, files, output_path, made, written, started,
          template_path, template_content, stack, opened, returned, unreadable,
          template_vars, undefined_vars, printed, rendered>>

inputs == <<fs, template_dirs, variable_dirs>>
walker == <<td, input_dir, walk, root, files, output_path>>
outputs == <<made, written, printed>>
renderer == <<started, template_path, template_content, stack, opened, returned,
              unreadable, template_vars, undefined_vars, rendered>>

None == <<"None">>
NoError == [type |-> "none"]

Init ==
    /\ \/ /\ fs \in TemplateSystems
          /\ template_dirs = <<dA, dC>>
          /\ variable_dirs \in {<<>>, <<dV>>, <<dV, dW>>}
       \/ /\ fs \in DataSystems
          /\ template_dirs \in {<<dA>>, <<dC, <<>>, <<"a">>>>, <<dA, Abs(<<"z">>)>>,
                                <<Sub(dA, t_md), dA>>}
          /\ variable_dirs \in {<<dV>>, <<dV, dW>>, <<dW, dV>>, <<dV, <<>>, dW>>,
                                <<dW, Abs(<<"n">>)>>, <<Sub(dV, p_yaml)>>}
    /\ pc = "check"
    /\ error = NoError
    /\ variables = EmptyDict
    /\ data_opened = {}
    /\ td = 1
    /\ input_dir = None
    /\ walk = <<>>
    /\ root = None
    /\ files = <<>>
    /\ output_path = None
    /\ made = {}
    /\ written = EmptyDict
    /\ started = {}
    /\ template_path = None
    /\ template_content = None
    /\ stack = <<>>
    /\ opened = <<>>
    /\ returned = {}
    /\ unreadable = None
    /\ template_vars = {}
    /\ undefined_vars = {}
    /\ printed = {}
    /\ rendered = None

\* a handler around the render of a file that records the exception and goes
\* on with the next file
Raise_and_continue(e) ==
    /\ pc' = "files"
    /\ error' = [type |-> e.type, message |-> e.message, path |-> e.path, at |-> pc]

\* An exception that nothing catches leaves run, lines 156 and 189
\* (at: the position the exception was raised at)
Raise(e) ==
    /\ pc' = "failed"
    /\ error' = [type |-> e.type, message |-> e.message, path |-> e.path, at |-> pc]

\* is_directory, line 173
is_directory(path) ==
    IF ~isdir(fs, path)
    THEN [type |-> "NotADirectoryError", message |-> "Provided path is not a directory", path |-> path]
    ELSE NoError

\* a check that forgets the variable directories
run_check_templates_only ==
    /\ pc = "check"
    /\ LET dirs == template_dirs
           bad == {n \in 1..Len(dirs) : dirs[n] # <<>> /\ is_directory(dirs[n]) # NoError}
       IN IF bad = {}
          THEN pc' = "load" /\ error' = error
          ELSE Raise(is_directory(dirs[CHOOSE n \in bad : \A m \in bad : n <= m]))
    /\ UNCHANGED <<inputs, variables, data_opened, walker, outputs, renderer>>

\* run, lines 179-181: the first supplied path that is no directory raises
run_check ==
    /\ pc = "check"
    /\ LET dirs == template_dirs \o variable_dirs
           bad == {n \in 1..Len(dirs) : dirs[n] # <<>> /\ is_directory(dirs[n]) # NoError}
       IN IF bad = {}
          THEN pc' = "load" /\ error' = error
          ELSE Raise(is_directory(dirs[CHOOSE n \in bad : \A m \in bad : n <= m]))
    /\ UNCHANGED <<inputs, variables, data_opened, walker, outputs, renderer>>

RECURSIVE DataWalks(_, _)
\* load_variables, lines 164-166: the walks of the directories, in the order
\* of the argument; an empty string is skipped
DataWalks(f, dirs) ==
    IF dirs = <<>> THEN {<<>>}
    ELSE {a \o b : a \in (IF Head(dirs) = <<>> THEN {<<>>} ELSE WalkOrders(f, Head(dirs))),
                   b \in DataWalks(f, Tail(dirs))}

RECURSIVE PathsOf(_)
\* the files of a walk, in its order: os.path.join(root, file)
PathsOf(w) ==
    IF w = <<>> THEN <<>>
    ELSE [n \in 1..Len(Head(w).files) |->
             [file |-> Head(w).files[n], path |-> join(Head(w).root, Head(w).files[n])]]
         \o PathsOf(Tail(w))

RECURSIVE LoadFiles(_, _, _)
\* load_variables, lines 167-170, over the files ps: the first file that
\* cannot be opened or loaded raises
LoadFiles(f, ps, acc) ==
    IF Len(ps) = 0 THEN acc
    ELSE LET e == ps[1]
             rest == [n \in 1..(Len(ps) - 1) |-> ps[n + 1]]
         IN IF ~(EndsWith(e.file, YAML) \/ EndsWith(e.file, YML))
            THEN LoadFiles(f, rest, acc)
            ELSE LET o == Open(f, e.path)
                     seen == [acc EXCEPT !.opened = @ \cup {e.path}]
                 IN IF ~o.ok
                    THEN [seen EXCEPT !.error = [type |-> o.error, message |-> "", path |-> e.path]]
                    ELSE LET doc == safe_load(o.content)
                         IN CASE doc.kind = "mapping" ->
                                    LoadFiles(f, rest, [seen EXCEPT !.variables = update(@, doc.doc)])
                              [] doc.kind = "none" ->
                                    [seen EXCEPT !.error = [type |-> "TypeError", message |-> "", path |-> e.path]]
                              [] OTHER ->
                                    [seen EXCEPT !.error = [type |-> "YAMLError", message |-> "", path |-> e.path]]

\* load_variables, line 162, called at line 184
load_variables ==
    /\ pc = "load"
    /\ \E w \in DataWalks(fs, variable_dirs) :
          LET r == LoadFiles(fs, PathsOf(w), [variables |-> EmptyDict, opened |-> {}, error |-> NoError])
          IN /\ data_opened' = r.opened
             /\ IF r.error = NoError
                THEN variables' = r.variables /\ pc' = "run" /\ error' = error
                ELSE variables' = variables /\ Raise(r.error)
    /\ UNCHANGED <<inputs, walker, outputs, renderer>>

\* run, lines 187-189: the next template directory; an empty string is skipped
run_loop ==
    /\ pc = "run"
    /\ IF td > Len(template_dirs)
       THEN pc' = "finished" /\ UNCHANGED <<td, input_dir, walk>>
       ELSE IF template_dirs[td] = <<>>
       THEN pc' = pc /\ td' = td + 1 /\ UNCHANGED <<input_dir, walk>>
       ELSE \E w \in WalkOrders(fs, template_dirs[td]) :
               /\ pc' = "walk"
               /\ input_dir' = template_dirs[td]
               /\ walk' = w
               /\ td' = td
    /\ UNCHANGED <<inputs, error, variables, data_opened, root, files, output_path,
                   outputs, renderer>>

\* process_directory, lines 140-143
output_root == join(OutputDir, relpath(root, input_dir))

\* os.makedirs(path, exist_ok=True): the directory and those above it
makedirs(path) ==
    {SubSeq(Normalize(path), 1, n) : n \in 1..Len(Normalize(path))}

\* process_directory, lines 137-146: the next directory of the walk
process_directory_walk ==
    /\ pc = "walk"
    /\ IF walk = <<>>
       THEN /\ pc' = "run"
            /\ td' = td + 1
            /\ UNCHANGED <<walk, root, files, made>>
       ELSE /\ pc' = "files"
            /\ root' = Head(walk).root
            /\ files' = Head(walk).files
            /\ walk' = Tail(walk)
            /\ made' = made \cup makedirs(join(OutputDir, relpath(Head(walk).root, input_dir)))
            /\ td' = td
    /\ UNCHANGED <<inputs, error, variables, data_opened, input_dir, output_path,
                   written, printed, renderer>>

\* process_directory, lines 149-156: the next file of the directory; a file
\* with one of the three extensions is rendered
process_directory_file ==
    /\ pc = "files"
    /\ IF Len(files) = 0
       THEN /\ pc' = "walk"
            /\ UNCHANGED <<files, output_path, template_path, started, opened, returned>>
       ELSE LET file == files[1]
            IN /\ files' = [n \in 1..(Len(files) - 1) |-> files[n + 1]]
               /\ IF EndsWith(file, MD) \/ EndsWith(file, YAML) \/ EndsWith(file, YML)
                  THEN /\ template_path' = join(root, file)
                       /\ output_path' = join(output_root, file)
                       /\ started' = started \cup {join(root, file)}
                       /\ opened' = <<>>
                       /\ returned' = {}
                       /\ pc' = "Read"
                  ELSE /\ pc' = pc
                       /\ UNCHANGED <<output_path, template_path, started, opened, returned>>
    /\ UNCHANGED <<inputs, error, variables, data_opened, td, input_dir, walk, root,
                   outputs, template_content, stack, unreadable,
                   template_vars, undefined_vars, rendered>>

\* an activation of include_external_files(template_content, template_path):
\* pos is where re.sub searches next, pieces what it has put out so far (the
\* text between the matches and the pieces of the replacements, in order),
\* opens the number of open() calls of its replace_with_file_content
Activation(content, path) ==
    [path |-> path, content |-> content, pos |-> 1, pieces |-> <<>>, opens |-> 0]

\* render_template, lines 101-105, and the call of line 108
render_template_read ==
    /\ pc = "Read"
    /\ LET o == Open(fs, template_path)
       IN IF o.ok
          THEN /\ template_content' = o.content
               /\ stack' = <<Activation(o.content, template_path)>>
               /\ pc' = "FragmentResolve"
               /\ error' = error
          ELSE /\ Raise(IF o.error = "FileNotFoundError"
                        THEN [type |-> "FileNotFoundError", message |-> "Template file not found",
                              path |-> template_path]
                        ELSE [type |-> o.error, message |-> "", path |-> template_path])
               /\ UNCHANGED <<template_content, stack>>
    /\ UNCHANGED <<inputs, variables, data_opened, walker, outputs, started, template_path,
                   opened, returned, unreadable, template_vars, undefined_vars, rendered>>

\* replace_with_file_content, lines 38-39: the handler around the open() and
\* the nested call
except_FileNotFoundError(e, absolute_file_path) ==
    IF e.type = "FileNotFoundError"
    THEN [type |-> "FileNotFoundError", message |-> "Included file not found",
          path |-> absolute_file_path]
    ELSE e

RECURSIVE Propagate(_, _)
\* An exception raised in the innermost activation passes the handler of
\* every replace_with_file_content that made a nested call: the one that
\* opened the file of activation n, for n from the innermost down to 2
Propagate(e, activations) ==
    IF Len(activations) <= 1 THEN e
    ELSE Propagate(except_FileNotFoundError(e, activations[Len(activations)].path),
                   SubSeq(activations, 1, Len(activations) - 1))

\* a nested call that leaves out a file that is being included already
nested_call_guarded(activations, file_content, absolute_file_path) ==
    IF \E n \in 1..Len(activations) :
          Normalize(activations[n].path) = Normalize(absolute_file_path)
    THEN [ok |-> TRUE, stack |-> Append(activations, Activation(<<>>, absolute_file_path))]
    ELSE IF Len(activations) < MaxDepth
    THEN [ok |-> TRUE, stack |-> Append(activations, Activation(file_content, absolute_file_path))]
    ELSE [ok |-> FALSE,
          error |-> [type |-> "RecursionError", message |-> "", path |-> absolute_file_path]]

\* replace_with_file_content, line 36: the nested call of
\* include_external_files, whatever files are being included already; the
\* interpreter raises RecursionError when the activations are too many
nested_call(activations, file_content, absolute_file_path) ==
    IF Len(activations) < MaxDepth
    THEN [ok |-> TRUE, stack |-> Append(activations, Activation(file_content, absolute_file_path))]
    ELSE [ok |-> FALSE,
          error |-> [type |-> "RecursionError", message |-> "", path |-> absolute_file_path]]

\* the directory of the root template, whatever file holds the directive
template_dir_of_root(path) == dirname(template_path)

\* include_external_files, line 25: the directory of the file being processed
template_dir_of(path) == dirname(path)

\* the text between the last match and this one
Gap(a, m) == IF m.start > a.pos THEN <<SubSeq(a.content, a.pos, m.start - 1)>> ELSE <<>>

\* replace_with_file_content, lines 28-39, on the next match of re.sub
replace_with_file_content ==
    /\ pc = "FragmentResolve"
    /\ LET n == Len(stack)
           a == stack[n]
           match == IncludeSearch(a.content, a.pos)
       IN /\ match.found
          /\ LET template_dir == template_dir_of(a.path)
                 file_path == match.group
                 absolute_file_path == join(template_dir, file_path)
                 o == Open(fs, absolute_file_path)
                 here == [a EXCEPT !.pos = match.end, !.pieces = @ \o Gap(a, match),
                                   !.opens = @ + 1]
             IN /\ opened' = Append(opened, [by |-> a.path, depth |-> n, file_path |-> file_path,
                                             path |-> absolute_file_path])
                /\ IF o.ok
                   THEN LET c == nested_call([stack EXCEPT ![n] = here], o.content,
                                             absolute_file_path)
                        IN IF c.ok
                           THEN /\ stack' = c.stack
                                /\ UNCHANGED <<pc, error, unreadable>>
                           ELSE /\ Raise(Propagate(c.error, stack))
                                /\ UNCHANGED <<stack, unreadable>>
                   ELSE /\ Raise(Propagate(
                               except_FileNotFoundError(
                                   [type |-> o.error, message |-> "", path |-> absolute_file_path],
                                   absolute_file_path), stack))
                        /\ unreadable' = IF o.error = "FileNotFoundError"
                                         THEN absolute_file_path ELSE unreadable
                        /\ UNCHANGED stack
    /\ UNCHANGED <<inputs, variables, data_opened, walker, outputs, started, template_path,
                   template_content, returned, template_vars, undefined_vars, rendered>>

\* re.sub, line 41, when no match is left: the activation returns its text,
\* to the replace_with_file_content that called it (line 36-37) or to
\* render_template (line 108)
include_external_files_return ==
    /\ pc = "FragmentResolve"
    /\ LET n == Len(stack)
           a == stack[n]
           last == From(a.content, a.pos)
           pieces == a.pieces \o (IF last = <<>> THEN <<>> ELSE <<last>>)
       IN /\ ~IncludeSearch(a.content, a.pos).found
          /\ returned' = returned \cup
                {[path |-> a.path, content |-> a.content, text |-> Concat(pieces),
                  pieces |-> pieces, opens |-> a.opens, depth |-> n]}
          /\ IF n = 1
             THEN /\ template_content' = Concat(pieces)
                  /\ stack' = <<>>
                  /\ pc' = "UsageScan"
             ELSE /\ stack' = [SubSeq(stack, 1, n - 1) EXCEPT ![n - 1].pieces = @ \o pieces]
                  /\ UNCHANGED <<pc, template_content>>
    /\ UNCHANGED <<inputs, error, variables, data_opened, walker, outputs, started,
                   template_path, opened, unreadable, template_vars, undefined_vars, rendered>>

\* a scan of the text as read, before the fragments are included
render_template_scan_raw ==
    /\ pc = "UsageScan"
    /\ template_vars' = find_template_variables(Open(fs, template_path).content)
    /\ pc' = "DiagnoseUndefined"
    /\ UNCHANGED <<inputs, error, variables, data_opened, walker, outputs, started,
                   template_path, template_content, stack, opened, returned, unreadable,
                   undefined_vars, rendered>>

\* render_template, line 111
render_template_scan ==
    /\ pc = "UsageScan"
    /\ template_vars' = find_template_variables(template_content)
    /\ pc' = "DiagnoseUndefined"
    /\ UNCHANGED <<inputs, error, variables, data_opened, walker, outputs, started,
                   template_path, template_content, stack, opened, returned, unreadable,
                   undefined_vars, rendered>>

\* a render that treats an undefined variable as an error
render_template_diagnose_strict ==
    /\ pc = "DiagnoseUndefined"
    /\ undefined_vars' = template_vars \ DOMAIN variables
    /\ IF undefined_vars' # {}
       THEN Raise([type |-> "UndefinedError", message |-> "", path |-> template_path])
       ELSE pc' = "Substitute" /\ error' = error
    /\ UNCHANGED <<inputs, variables, data_opened, walker, outputs, started,
                   template_path, template_content, stack, opened, returned, unreadable,
                   template_vars, rendered>>

\* render_template, lines 114-116: the names are joined in the order the set
\* yields them
render_template_diagnose ==
    /\ pc = "DiagnoseUndefined"
    /\ undefined_vars' = template_vars \ DOMAIN variables
    /\ IF undefined_vars' # {}
       THEN \E order \in Orders(undefined_vars') :
               printed' = printed \cup
                   {[line |-> "Warning: Undefined variables in", path |-> template_path,
                     names |-> JoinWith(order, <<",", " ">>)]}
       ELSE printed' = printed
    /\ pc' = "Substitute"
    /\ UNCHANGED <<inputs, error, variables, data_opened, walker, made, written, started,
                   template_path, template_content, stack, opened, returned, unreadable,
                   template_vars, rendered>>

\* render_template, lines 118-119
render_template_substitute ==
    /\ pc = "Substitute"
    /\ rendered' = Render(template_content, variables, 1)
    /\ pc' = "Done"
    /\ UNCHANGED <<inputs, error, variables, data_opened, walker, outputs, started,
                   template_path, template_content, stack, opened, returned, unreadable,
                   template_vars, undefined_vars>>

\* process_directory, lines 159-160
process_directory_write ==
    /\ pc = "Done"
    /\ written' = update(written, [k \in {Normalize(output_path)} |-> rendered])
    /\ pc' = "files"
    /\ UNCHANGED <<inputs, error, variables, data_opened, walker, made, printed, renderer>>

Next ==
    \/ run_check
    \/ load_variables
    \/ run_loop
    \/ process_directory_walk
    \/ process_directory_file
    \/ render_template_read
    \/ replace_with_file_content
    \/ include_external_files_return
    \/ render_template_scan
    \/ render_template_diagnose
    \/ render_template_substitute
    \/ process_directory_write

Spec == Init /\ [][Next]_vars

(***************************************************************************)
(* Properties                                                              *)
(***************************************************************************)

\* load_variables has returned the namespace and run is between two template
\* directories, or past the last
Loaded == pc \in {"run", "finished"}

\* the mappings of the data files under the n-th variable directory
DocsUnder(n) ==
    IF variable_dirs[n] = <<>> THEN {}
    ELSE {safe_load(fs[k].content).doc :
            k \in {l \in DOMAIN fs :
                     /\ IsPrefix(Normalize(variable_dirs[n]), l)
                     /\ fs[l].kind = "file"
                     /\ l # <<>>
                     /\ (EndsWith(l[Len(l)], YAML) \/ EndsWith(l[Len(l)], YML))}}

Defines(n, key) == \E doc \in DocsUnder(n) : key \in DOMAIN doc

DefinedKeys == UNION {DOMAIN doc : doc \in UNION {DocsUnder(n) : n \in 1..Len(variable_dirs)}}

\* C1: once load_variables has returned, the namespace holds exactly the keys
\* the data files define, and every key has a value that a file of the last
\* directory argument defining it gives it, whatever the enumeration order
\* inside the directories
C1_LaterDirectoryWins ==
    Loaded =>
        /\ DOMAIN variables = DefinedKeys
        /\ \A key \in DOMAIN variables :
              \E n \in 1..Len(variable_dirs) :
                 /\ Defines(n, key)
                 /\ \A m \in (n + 1)..Len(variable_dirs) : ~Defines(m, key)
                 /\ \E doc \in DocsUnder(n) : key \in DOMAIN doc /\ variables[key] = doc[key]

\* C1 witness: two directories give a key different values and the namespace
\* has the later one's, and another key comes from one directory alone
C1_Witness ==
    /\ pc = "finished"
    /\ Len(variable_dirs) >= 2
    /\ \E key \in DOMAIN variables :
          /\ Defines(1, key)
          /\ Defines(Len(variable_dirs), key)
          /\ \A doc \in DocsUnder(1) : key \in DOMAIN doc => doc[key] # variables[key]
    /\ \E key \in DOMAIN variables :
          Cardinality({n \in 1..Len(variable_dirs) : Defines(n, key)}) = 1

\* the supplied paths, in the order run checks them, and those that are no directory
Supplied == template_dirs \o variable_dirs
NotDirectories ==
    {n \in 1..Len(Supplied) :
        /\ Supplied[n] # <<>>
        /\ ~(Normalize(Supplied[n]) \in DOMAIN fs /\ fs[Normalize(Supplied[n])].kind = "dir")}

\* C7: when a supplied path is no directory, run fails with NotADirectoryError
\* naming such a path, before any data file is opened, any template rendered
\* and any output directory or file created; run gets past the check only
\* when every supplied path is a directory
C7_DirectoriesCheckedFirst ==
    /\ NotDirectories # {} =>
          /\ pc \in {"check", "failed"}
          /\ data_opened = {} /\ started = {} /\ made = {} /\ DOMAIN written = {}
          /\ printed = {}
          /\ pc = "failed" =>
                /\ error.type = "NotADirectoryError"
                /\ error.message = "Provided path is not a directory"
                /\ error.path = Supplied[CHOOSE n \in NotDirectories : \A m \in NotDirectories : n <= m]
    /\ pc \notin {"check", "failed"} => NotDirectories = {}

\* C7 witness: a variable directory that does not exist has made run fail
C7_Witness ==
    /\ pc = "failed"
    /\ error.type = "NotADirectoryError"
    /\ \E n \in 1..Len(variable_dirs) : error.path = variable_dirs[n]
    /\ \A n \in 1..Len(template_dirs) : error.path # template_dirs[n]

\* the text holds a span the inclusion pattern matches: {{{ and a later }}}
\* with no line break between them
HasDirective(s) ==
    \E i \in 1..Len(s) : \E j \in (i + 3)..Len(s) :
        /\ StartsAt(s, <<"{", "{", "{">>, i)
        /\ StartsAt(s, <<"}", "}", "}">>, j)
        /\ \A k \in (i + 3)..(j - 1) : s[k] # "\n"

\* the path string up to its last slash
ContainingDir(path) ==
    SubSeq(path, 1, (CHOOSE i \in 1..Len(path) :
                        path[i] = "/" /\ \A k \in (i + 1)..Len(path) : path[k] # "/") - 1)

a_t_md == Sub(dA, t_md)
a_b_f_md == Sub(Sub(dA, <<"b">>), f_md)
a_b_g_md == Sub(Sub(dA, <<"b">>), g_md)

\* C2: every file replace_with_file_content opens for a directive is named by
\* the reference itself when it is absolute and otherwise by the reference
\* appended to the directory of the file that holds the directive (the
\* template at depth 1, a fragment opened one level up further down); g.md
\* referenced from /a/b/f.md is read as /a/b/g.md and never as /a/g.md
C2_RelativeToIncludingFile ==
    \A n \in 1..Len(opened) :
        LET o == opened[n]
        IN /\ IF o.depth = 1 THEN o.by = template_path
              ELSE \E m \in 1..(n - 1) :
                      opened[m].depth = o.depth - 1 /\ opened[m].path = o.by
           /\ \E i \in 1..Len(Open(fs, o.by).content) :
                 /\ IncludeMatchAt(Open(fs, o.by).content, i).found
                 /\ IncludeMatchAt(Open(fs, o.by).content, i).group = o.file_path
           /\ o.file_path # <<>> =>
                 o.path = IF o.file_path[1] = "/" THEN o.file_path
                          ELSE ContainingDir(o.by) \o <<"/">> \o o.file_path
           /\ (o.by = a_b_f_md /\ o.file_path = g_md) => o.path = a_b_g_md
           /\ o.path # Sub(dA, g_md)

\* C2 witness: rendering /a/t.md, the directive of /a/b/f.md has been resolved
\* at depth 2 to /a/b/g.md
C2_Witness ==
    /\ template_path = a_t_md
    /\ \E n \in 1..Len(opened) :
          /\ opened[n].depth = 2
          /\ opened[n].by = a_b_f_md
          /\ opened[n].file_path = g_md
          /\ opened[n].path = a_b_g_md
    /\ \E n \in 1..Len(opened) :
          opened[n].depth = 1 /\ opened[n].file_path = Sub(<<"b">>, f_md)

\* C4: when the file of a directive, at any depth, does not exist, run fails
\* with "Included file not found" naming exactly the path that could not be
\* opened, and no output file has been written for the template
C4_MissingFragmentNamed ==
    unreadable # None =>
        /\ pc = "failed"
        /\ error.type = "FileNotFoundError"
        /\ error.message = "Included file not found"
        /\ error.path = unreadable
        /\ Normalize(output_path) \notin DOMAIN written

\* C8: an activation of include_external_files whose text holds no directive
\* returns the text unchanged and has opened no file, and no file is ever
\* opened on behalf of a text without a directive
C8_NoDirectiveIdentity ==
    /\ \A r \in returned :
          ~HasDirective(r.content) => r.text = r.content /\ r.opens = 0
    /\ \A n \in 1..Len(opened) : HasDirective(Open(fs, opened[n].by).content)
    /\ \A n \in 1..Len(stack) : ~HasDirective(stack[n].content) => stack[n].opens = 0

\* C8 witness: a text with braces and no directive has been returned as it was
C8_Witness ==
    \E r \in returned :
        /\ ~HasDirective(r.content)
        /\ \E i \in 1..Len(r.content) : StartsAt(r.content, <<"{", "{", "{">>, i)
        /\ r.text = r.content
        /\ r.opens = 0

\* C9 (as claimed): the text an activation of include_external_files returns
\* holds no directive
C9_NoDirectiveLeft ==
    \A r \in returned : ~HasDirective(r.text)

\* C9 (amended): the returned text is the concatenation of the stretches of
\* the template and of the included fragments that lie outside the matched
\* directives, none of which holds a directive; a directive is left in the
\* returned text only across the boundary of two stretches
C9_DirectivesReplaced ==
    \A r \in returned :
        /\ r.text = Concat(r.pieces)
        /\ \A n \in 1..Len(r.pieces) : ~HasDirective(r.pieces[n])
        /\ Len(r.pieces) <= 1 => ~HasDirective(r.text)
        /\ r.opens = 0 => r.text = r.content

\* C9 witness: the directive of a template has been replaced by a fragment
\* whose text forms a directive with the text after it
C9_Witness ==
    /\ pc = "UsageScan"
    /\ \E r \in returned :
          /\ r.depth = 1 /\ r.opens = 1 /\ r.text = template_content
          /\ HasDirective(r.text)
          /\ \A n \in 1..Len(r.pieces) : ~HasDirective(r.pieces[n])
    /\ \E r \in returned : r.depth = 2 /\ ~HasDirective(r.text)

C3_Report ==
    /\ pc \in {"Substitute", "Done"} =>
          /\ undefined_vars = find_template_variables(template_content) \ DOMAIN variables
          /\ undefined_vars # {} <=> \E w \in printed : w.path = template_path
          /\ \A w \in printed :
                w.path = template_path =>
                   /\ w.line = "Warning: Undefined variables in"
                   /\ \A v \in undefined_vars :
                         \E i \in 1..Len(w.names) :
                            /\ StartsAt(w.names, v, i)
                            /\ (i = 1 \/ w.names[i - 1] = " ")
                            /\ (i + Len(v) > Len(w.names) \/ w.names[i + Len(v)] = ",")
                   /\ Len(w.names) + 2 =
                         Cardinality(undefined_vars) * 2
                         + Len(Concat(CHOOSE o \in Orders(undefined_vars) : TRUE))
    /\ pc = "Done" =>
          /\ template_vars = {} => rendered = template_content
          /\ (/\ template_content = <<"T">> \o Var(<<"k">>) \o <<" ">> \o Var(<<"u">>)
              /\ <<"k">> \in DOMAIN variables)
                => rendered = <<"T">> \o variables[<<"k">>] \o <<" ">>

\* C3: the undefined-variable report of render_template is the names
\* find_template_variables finds in the text minus the keys of the namespace;
\* a warning with the template path and exactly these names is printed if and
\* only if the report is not empty; and in both cases the render goes on to
\* the substitution and returns the text with the defined variables applied
C3_UndefinedNeverAborts ==
    /\ []C3_Report
    /\ [][pc = "DiagnoseUndefined" => pc' = "Substitute"]_vars
    /\ [][pc = "Substitute" => pc' = "Done" /\ rendered' # None]_vars

\* C3 witness: a render with a defined and an undefined variable has warned
\* and returned the text with the defined one applied
C3_Witness ==
    /\ pc = "Done"
    /\ undefined_vars = {<<"u">>}
    /\ <<"k">> \in template_vars \cap DOMAIN variables
    /\ \E w \in printed : w.path = template_path /\ w.names = <<"u">>
    /\ rendered = <<"T">> \o variables[<<"k">>] \o <<" ">>

C5_Scanned ==
    /\ pc \in {"UsageScan", "DiagnoseUndefined", "Substitute", "Done"} =>
          /\ stack = <<>>
          /\ \E r \in returned : r.depth = 1 /\ r.text = template_content
    /\ pc \in {"DiagnoseUndefined", "Substitute", "Done"} =>
          template_vars = find_template_variables(template_content)
    /\ pc \in {"Substitute", "Done"} =>
          \A r \in returned :
             r.depth >= 2 =>
                find_template_variables(r.text) \ DOMAIN variables \subseteq undefined_vars

\* C5: render_template goes through Read, FragmentResolve, UsageScan,
\* DiagnoseUndefined and Substitute in this order; the scan runs on the text
\* that the outermost include_external_files returned; and every variable of
\* the resolved text of a fragment included at any depth that the namespace
\* lacks is in the undefined-variable report
C5_ScanAfterExpansion ==
    /\ []C5_Scanned
    /\ [][/\ pc' = "Read" => pc \in {"files", "Read"}
          /\ pc = "Read" => pc' \in {"Read", "FragmentResolve", "failed"}
          /\ pc = "FragmentResolve" => pc' \in {"FragmentResolve", "UsageScan", "failed"}
          /\ pc' = "FragmentResolve" => pc \in {"Read", "FragmentResolve"}
          /\ pc' = "UsageScan" => pc \in {"FragmentResolve", "UsageScan"}
          /\ pc = "UsageScan" => pc' \in {"UsageScan", "DiagnoseUndefined"}
          /\ pc' = "DiagnoseUndefined" => pc \in {"UsageScan", "DiagnoseUndefined"}
          /\ pc = "DiagnoseUndefined" => pc' \in {"DiagnoseUndefined", "Substitute"}
          /\ pc' = "Substitute" => pc \in {"DiagnoseUndefined", "Substitute"}
          /\ pc = "Substitute" => pc' \in {"Substitute", "Done"}
          /\ pc' = "Done" => pc \in {"Substitute", "Done"}]_vars

\* C5 witness: a variable referenced only in a fragment included by a fragment
\* of the template is in the report
C5_Witness ==
    /\ pc = "Done"
    /\ \E r \in returned :
          /\ r.depth = 3
          /\ \E v \in find_template_variables(r.text) :
                /\ v \notin DOMAIN variables
                /\ v \notin find_template_variables(Open(fs, template_path).content)
                /\ v \in undefined_vars

\* C6: an exception raised while run handles a file leaves run: from then on
\* no data file is opened, no template rendered, nothing printed and no
\* directory or file created; the template that failed and the files after it
\* in its directory have no output
C6_FailureHaltsBatch ==
    /\ [](error # NoError <=> pc = "failed")
    /\ [](pc = "failed" /\ error.at \in {"Read", "FragmentResolve"} =>
             /\ template_path \notin {join(root, files[n]) : n \in 1..Len(files)}
             /\ Normalize(output_path) \notin DOMAIN written
             /\ \A n \in 1..Len(files) : join(root, files[n]) \notin started)
    /\ [][error # NoError =>
             UNCHANGED <<pc, started, written, made, printed, rendered, data_opened, variables>>]_vars

\* C6 witness: a template has been written, a later one has failed on a
\* missing fragment, and a template directory is still to come
C6_Witness ==
    /\ pc = "failed"
    /\ error.at = "FragmentResolve"
    /\ error.message = "Included file not found"
    /\ DOMAIN written # {}
    /\ td < Len(template_dirs)
    /\ template_dirs[td + 1] # <<>>

RECURSIVE AllIncludes(_, _)
\* the references of the directives of a text, from position i on
AllIncludes(s, i) ==
    LET m == IncludeSearch(s, i)
    IN IF m.found THEN {m.group} \cup AllIncludes(s, m.end) ELSE {}

\* the paths the directives of file p name
Refs(p) ==
    IF Open(fs, p).ok
    THEN {join(dirname(p), g) : g \in AllIncludes(Open(fs, p).content, 1)}
    ELSE {}

RECURSIVE Chain(_, _)
\* p is readable and starts a chain of n inclusions of readable files
Chain(p, n) == Open(fs, p).ok /\ (n = 0 \/ \E q \in Refs(p) : Chain(q, n - 1))

NumFiles == Cardinality({k \in DOMAIN fs : fs[k].kind = "file"})

\* a chain with more files than there are repeats one: the inclusion graph
\* reachable from p has a cycle
Cyclic(p) == Chain(p, NumFiles)

RECURSIVE Broken(_, _)
\* within n inclusions of p there is a reference to a file that cannot be read
Broken(p, n) ==
    \E q \in Refs(p) : ~Open(fs, q).ok \/ (n > 0 /\ Broken(q, n - 1))

AllExist(p) == ~Broken(p, NumFiles)

C10_Returned ==
    /\ Len(stack) <= MaxDepth
    /\ pc \in {"UsageScan", "Done"} =>
          ~Cyclic(template_path) /\ AllExist(template_path)
    /\ pc = "failed" /\ error.at = "FragmentResolve" =>
          /\ error.type # "CyclicInclusion"
          /\ error.type = "RecursionError" => Cyclic(template_path)
          /\ AllExist(template_path) =>
                Cyclic(template_path) /\ error.type = "RecursionError"

\* more than a text of the file system is long
Weight == 2 + Cardinality(UNION {DOMAIN fs[k].content : k \in {l \in DOMAIN fs : fs[l].kind = "file"}})

RECURSIVE Power(_, _)
Power(b, n) == IF n = 0 THEN 1 ELSE b * Power(b, n - 1)

RECURSIVE Remaining(_, _)
\* what the activations n and above have still to scan, an outer activation
\* counting more than all that can be nested in it
Remaining(activations, n) ==
    IF n > Len(activations) THEN 0
    ELSE (Len(activations[n].content) - activations[n].pos + 2) * Power(Weight, MaxDepth - n)
         + Remaining(activations, n + 1)

\* C10: when every referenced file can be read, include_external_files
\* returns the expanded text if and only if no file reachable from the
\* template includes itself, directly or through others; on a cycle the
\* activations pile up until the interpreter gives up, and no text and no
\* cyclic-inclusion error is ever returned.  Every step of the resolution
\* brings its end nearer, so it does end, one way or the other
C10_TerminatesIffAcyclic ==
    /\ []C10_Returned
    /\ [][pc = "FragmentResolve" /\ pc' = "FragmentResolve" =>
             Remaining(stack', 1) < Remaining(stack, 1)]_vars

\* C10 witness: a fragment that includes itself has exhausted the activations
C10_Witness ==
    /\ pc = "failed"
    /\ error.type = "RecursionError"
    /\ AllExist(template_path)
    /\ Cyclic(template_path)
    /\ Len(stack) = MaxDepth

====
